---------------------------- MODULE Spec2Model ----------------------------
(***************************************************************************)
(* Model of Hecate's access-control module, src/auth/mod.rs:               *)
(*   - the tier classifiers is_all / is_self / is_auth,                    *)
(*   - the policy document CustomAuth, its defaults and its validation,    *)
(*   - the credential Auth, its resolver from_request and validator        *)
(*     validate (with secure),                                             *)
(*   - the permission gate auth_met and the allows_* accessors.            *)
(*                                                                         *)
(* Rust's Option<T> is a sequence of length at most one: None is <<>>,     *)
(* Some(x) is <<x>>.  A Rust String that the code inspects byte by byte    *)
(* (header values, decoded Basic payloads) is a sequence; tier names and   *)
(* cookie values, which the code only compares or copies, are atoms.       *)
(***************************************************************************)
EXTENDS Integers, Sequences, FiniteSets, TLC

VARIABLES
    custom,     \* the policy document (CustomAuth)
    valid,      \* result of the last CustomAuth::is_valid, None before it
    store,      \* the identity store: tables users and users_tokens
    request,    \* the inbound request: session cookie, Authorization values
    outcome,    \* request::Outcome of from_request: Pending/Success/Failure
    auth,       \* the credential (Auth) of the request
    ret,        \* value returned by the last call
    last,       \* the last call: operation, argument, credential before it,
                \* number of store queries it issued
    queries     \* store queries issued for this credential so far

vars == <<custom, valid, store, request, outcome, auth, ret, last, queries>>

None == <<>>
Some(x) == <<x>>

\* ------------------------------------------------------------------------
\* Bounds of the model
\* ------------------------------------------------------------------------

\* longest list of Authorization header values in a request
MaxKeys == 2
\* cap on the store queries counted for one credential
MaxQueries == 3

\* ------------------------------------------------------------------------
\* Errors
\* ------------------------------------------------------------------------

\* HecateError::new(401, "You must be logged in ...", None)
not_authed == <<"Err", 401, "You must be logged in to access this resource">>

OkTrue == <<"Ok", TRUE>>

\* format!("Auth Config Error: '{}' must be one of ...", scope_type):
\* the message is kept as the scope it names and the vocabulary it prints
ConfigErr(scope_type, printed) == <<"Err", scope_type, printed>>

\* ------------------------------------------------------------------------
\* Tier classifiers
\* ------------------------------------------------------------------------

is_all(scope_type, scope) ==
    IF scope = None THEN OkTrue
    ELSE IF scope[1] = "public" THEN OkTrue
    ELSE IF scope[1] = "admin" THEN OkTrue
    ELSE IF scope[1] = "user" THEN OkTrue
    ELSE ConfigErr(scope_type, "'public', 'admin', 'user', or null")

is_self(scope_type, scope) ==
    IF scope = None THEN OkTrue
    ELSE IF scope[1] = "self" THEN OkTrue
    ELSE IF scope[1] = "admin" THEN OkTrue
    ELSE ConfigErr(scope_type, "'self', 'admin', or null")

\* the message of is_auth prints the vocabulary of is_self
is_auth(scope_type, scope) ==
    IF scope = None THEN OkTrue
    ELSE IF scope[1] = "user" THEN OkTrue
    ELSE IF scope[1] = "admin" THEN OkTrue
    ELSE ConfigErr(scope_type, "'self', 'admin', or null")

\* a run of `check?;` statements ending in Ok(true): the first Err returns
RECURSIVE Try(_)
Try(checks) ==
    IF checks = <<>> THEN OkTrue
    ELSE IF Head(checks)[1] = "Err" THEN Head(checks)
    ELSE Try(Tail(checks))

\* ------------------------------------------------------------------------
\* The per-category policy structs: compiled-in defaults and validation
\* ------------------------------------------------------------------------

AuthWebhooks_new ==
    [list |-> Some("admin"), delete |-> Some("admin"), update |-> Some("admin")]

AuthWebhooks_is_valid(self) ==
    Try(<< is_auth("webhooks::list", self.list),
           is_auth("webhooks::delete", self.delete),
           is_auth("webhooks::update", self.update) >>)

AuthMeta_new ==
    [get |-> Some("public"), list |-> Some("public"), set |-> Some("admin")]

AuthMeta_is_valid(self) ==
    Try(<< is_all("meta::get", self.get),
           is_all("meta::list", self.list),
           is_auth("meta::set", self.set) >>)

AuthClone_new ==
    [get |-> Some("user"), query |-> Some("user")]

AuthClone_is_valid(self) ==
    Try(<< is_all("clone::get", self.get),
           is_all("clone::query", self.query) >>)

AuthSchema_new ==
    [get |-> Some("public")]

AuthSchema_is_valid(self) ==
    Try(<< is_all("schema::get", self.get) >>)

AuthStats_new ==
    [get |-> Some("public"), bounds |-> Some("public")]

AuthStats_is_valid(self) ==
    Try(<< is_all("stats::get", self.get),
           is_all("stats::bounds", self.bounds) >>)

AuthAuth_new ==
    [get |-> Some("public")]

AuthAuth_is_valid(self) ==
    Try(<< is_all("auth::get", self.get) >>)

AuthMVT_new ==
    [get |-> Some("public"), delete |-> Some("admin"),
     regen |-> Some("user"), meta |-> Some("public")]

\* the check labelled mvt::delete reads self.regen
AuthMVT_is_valid(self) ==
    Try(<< is_all("mvt::get", self.get),
           is_all("mvt::regen", self.regen),
           is_all("mvt::delete", self.regen),
           is_all("mvt::meta", self.meta) >>)

AuthUser_new ==
    [info |-> Some("self"), list |-> Some("user"),
     create |-> Some("public"), create_session |-> Some("self")]

AuthUser_is_valid(self) ==
    Try(<< is_all("user::create", self.create),
           is_all("user::list", self.list),
           is_self("user::create_session", self.create_session),
           is_self("user::info", self.info) >>)

AuthStyle_new ==
    [create |-> Some("self"), patch |-> Some("self"),
     set_public |-> Some("self"), set_private |-> Some("self"),
     delete |-> Some("self"), get |-> Some("public"), list |-> Some("public")]

AuthStyle_is_valid(self) ==
    Try(<< is_self("style::create", self.create),
           is_self("style::patch", self.patch),
           is_self("style::set_public", self.set_public),
           is_self("style::set_private", self.set_private),
           is_self("style::delete", self.delete),
           is_all("style::get", self.get),
           is_all("style::list", self.list) >>)

AuthDelta_new ==
    [get |-> Some("public"), list |-> Some("public")]

AuthDelta_is_valid(self) ==
    Try(<< is_all("delta::get", self.get),
           is_all("delta::list", self.list) >>)

AuthFeature_new ==
    [force |-> Some("none"), create |-> Some("user"),
     get |-> Some("public"), history |-> Some("public")]

AuthFeature_is_valid(self) ==
    Try(<< is_auth("feature::create", self.create),
           is_auth("feature::force", self.force),
           is_all("feature::get", self.get),
           is_all("feature::history", self.history) >>)

AuthBounds_new ==
    [list |-> Some("public"), create |-> Some("admin"),
     delete |-> Some("admin"), get |-> Some("public")]

\* the check labelled bounds::delete reads self.create
AuthBounds_is_valid(self) ==
    Try(<< is_all("bounds::list", self.list),
           is_all("bounds::create", self.create),
           is_all("bounds::delete", self.create),
           is_all("bounds::get", self.get) >>)

AuthOSM_new ==
    [get |-> Some("public"), create |-> Some("user")]

AuthOSM_is_valid(self) ==
    Try(<< is_all("osm::get", self.get),
           is_auth("osm::create", self.create) >>)

\* ------------------------------------------------------------------------
\* The policy document
\* ------------------------------------------------------------------------

\* CustomAuth::new(): every category present with its default policy
CustomAuth_new ==
    [server   |-> Some("public"),
     webhooks |-> Some(AuthWebhooks_new),
     meta     |-> Some(AuthMeta_new),
     stats    |-> Some(AuthStats_new),
     schema   |-> Some(AuthSchema_new),
     auth     |-> Some(AuthAuth_new),
     mvt      |-> Some(AuthMVT_new),
     user     |-> Some(AuthUser_new),
     feature  |-> Some(AuthFeature_new),
     style    |-> Some(AuthStyle_new),
     delta    |-> Some(AuthDelta_new),
     bounds   |-> Some(AuthBounds_new),
     clone    |-> Some(AuthClone_new),
     osm      |-> Some(AuthOSM_new)]

\* CustomAuth::is_valid: server, then meta, mvt, schema, user, feature,
\* style, delta, bounds, clone, osm; webhooks, stats and auth are not visited
CustomAuth_is_valid(self) ==
    Try(<< is_all("server", self.server),
           IF self.meta = None THEN OkTrue ELSE AuthMeta_is_valid(self.meta[1]),
           IF self.mvt = None THEN OkTrue ELSE AuthMVT_is_valid(self.mvt[1]),
           IF self.schema = None THEN OkTrue ELSE AuthSchema_is_valid(self.schema[1]),
           IF self.user = None THEN OkTrue ELSE AuthUser_is_valid(self.user[1]),
           IF self.feature = None THEN OkTrue ELSE AuthFeature_is_valid(self.feature[1]),
           IF self.style = None THEN OkTrue ELSE AuthStyle_is_valid(self.style[1]),
           IF self.delta = None THEN OkTrue ELSE AuthDelta_is_valid(self.delta[1]),
           IF self.bounds = None THEN OkTrue ELSE AuthBounds_is_valid(self.bounds[1]),
           IF self.clone = None THEN OkTrue ELSE AuthClone_is_valid(self.clone[1]),
           IF self.osm = None THEN OkTrue ELSE AuthOSM_is_valid(self.osm[1]) >>)


\* ------------------------------------------------------------------------
\* The credential
\* ------------------------------------------------------------------------

\* Auth::new()
Auth_new == [uid |-> None, access |-> None, token |-> None, basic |-> None]

\* a secure that leaves the session token in place
secure_KeepsToken(self, user) ==
    [uid    |-> IF user # None THEN Some(user[1][1]) ELSE self.uid,
     access |-> IF user # None THEN user[1][2] ELSE self.access,
     token  |-> self.token,
     basic  |-> None]

\* a secure that leaves the Basic pair in place
secure_KeepsBasic(self, user) ==
    [uid    |-> IF user # None THEN Some(user[1][1]) ELSE self.uid,
     access |-> IF user # None THEN user[1][2] ELSE self.access,
     token  |-> None,
     basic  |-> self.basic]

\* Auth::secure: set uid/access from `user` when given, clear both secrets
secure(self, user) ==
    [uid    |-> IF user # None THEN Some(user[1][1]) ELSE self.uid,
     access |-> IF user # None THEN user[1][2] ELSE self.access,
     token  |-> None,
     basic  |-> None]

\* ------------------------------------------------------------------------
\* The credential resolver (FromRequest for Auth)
\* ------------------------------------------------------------------------

B64Alphabet ==
    << "A","B","C","D","E","F","G","H","I","J","K","L","M","N","O","P",
       "Q","R","S","T","U","V","W","X","Y","Z","a","b","c","d","e","f",
       "g","h","i","j","k","l","m","n","o","p","q","r","s","t","u","v",
       "w","x","y","z","0","1","2","3","4","5","6","7","8","9","+","/" >>

B64Value(c) == (CHOOSE i \in 1..64 : B64Alphabet[i] = c) - 1

IsB64Char(c) == \E i \in 1..64 : B64Alphabet[i] = c

\* number of '=' characters ending s
RECURSIVE TrailingPad(_)
TrailingPad(s) ==
    IF s # <<>> /\ s[Len(s)] = "=" THEN 1 + TrailingPad(SubSeq(s, 1, Len(s) - 1))
    ELSE 0

\* the bytes of a run of base64 symbols, four symbols to three bytes; a
\* final run of two symbols gives one byte and of three gives two
RECURSIVE B64Bytes(_)
B64Bytes(syms) ==
    IF Len(syms) >= 4 THEN
        LET n == B64Value(syms[1]) * 262144 + B64Value(syms[2]) * 4096
                 + B64Value(syms[3]) * 64 + B64Value(syms[4])
        IN  << n \div 65536, (n \div 256) % 256, n % 256 >>
            \o B64Bytes(SubSeq(syms, 5, Len(syms)))
    ELSE IF Len(syms) = 3 THEN
        LET n == B64Value(syms[1]) * 262144 + B64Value(syms[2]) * 4096
                 + B64Value(syms[3]) * 64
        IN  << n \div 65536, (n \div 256) % 256 >>
    ELSE IF Len(syms) = 2 THEN
        LET n == B64Value(syms[1]) * 262144 + B64Value(syms[2]) * 4096
        IN  << n \div 65536 >>
    ELSE <<>>

\* base64::decode (standard alphabet, '=' padding): Err on a symbol outside
\* the alphabet, on padding that does not complete a group of four, and on
\* a length that no byte string encodes
base64_decode(s) ==
    LET pad  == TrailingPad(s)
        syms == SubSeq(s, 1, Len(s) - pad)
    IN  IF \E i \in 1..Len(syms) : ~IsB64Char(syms[i]) THEN <<"Err">>
        ELSE IF pad > 2 \/ (pad > 0 /\ Len(s) % 4 # 0) THEN <<"Err">>
        ELSE IF Len(syms) % 4 = 1 THEN <<"Err">>
        ELSE <<"Ok", B64Bytes(syms)>>

IsCont(b) == b >= 128 /\ b <= 191

\* whether a byte string is well-formed UTF-8
RECURSIVE IsUtf8(_)
IsUtf8(b) ==
    IF b = <<>> THEN TRUE
    ELSE IF b[1] <= 127 THEN IsUtf8(Tail(b))
    ELSE IF b[1] >= 194 /\ b[1] <= 223 THEN
        Len(b) >= 2 /\ IsCont(b[2]) /\ IsUtf8(SubSeq(b, 3, Len(b)))
    ELSE IF b[1] >= 224 /\ b[1] <= 239 THEN
        /\ Len(b) >= 3 /\ IsCont(b[2]) /\ IsCont(b[3])
        /\ (b[1] = 224 => b[2] >= 160)
        /\ (b[1] = 237 => b[2] <= 159)
        /\ IsUtf8(SubSeq(b, 4, Len(b)))
    ELSE IF b[1] >= 240 /\ b[1] <= 244 THEN
        /\ Len(b) >= 4 /\ IsCont(b[2]) /\ IsCont(b[3]) /\ IsCont(b[4])
        /\ (b[1] = 240 => b[2] >= 144)
        /\ (b[1] = 244 => b[2] <= 143)
        /\ IsUtf8(SubSeq(b, 5, Len(b)))
    ELSE FALSE

\* String::from_utf8
from_utf8(bytes) == IF IsUtf8(bytes) THEN <<"Ok", bytes>> ELSE <<"Err">>

Colon == 58

\* decoded_str.split(":"): the fields between colons, one more than colons
RECURSIVE SplitFrom(_, _)
SplitFrom(s, field) ==
    IF s = <<>> THEN << field >>
    ELSE IF Head(s) = Colon THEN << field >> \o SplitFrom(Tail(s), <<>>)
    ELSE SplitFrom(Tail(s), Append(field, Head(s)))

split(s) == SplitFrom(s, <<>>)

BasicPrefix == << "B", "a", "s", "i", "c", " " >>

Success(a) == [outcome |-> "Success", auth |-> a]

\* a resolver that degrades a malformed Basic header to anonymous
Failure_Anonymous == Success(Auth_new)

\* Outcome::Failure((Status::Unauthorized, ()))
Failure == [outcome |-> "Failure", auth |-> None]

\* the resolver unwinds: String::split_off panics when its offset is not on
\* a character boundary
Panic == [outcome |-> "Panic", auth |-> None]

\* the UTF-8 width of one character of a header value; the characters of
\* the model are ASCII except "U+00E9", which takes two bytes
ByteLen(c) == IF c = "U+00E9" THEN 2 ELSE 1

\* str::len: the length of a header value in bytes
RECURSIVE len(_)
len(s) == IF s = <<>> THEN 0 ELSE ByteLen(Head(s)) + len(Tail(s))

\* str::is_char_boundary: some prefix of s is exactly `at` bytes long
is_char_boundary(s, at) == \E k \in 0..Len(s) : len(SubSeq(s, 1, k)) = at

\* String::split_off(at) on a character boundary: << head, tail >>
split_off(s, at) ==
    LET k == CHOOSE k \in 0..Len(s) : len(SubSeq(s, 1, k)) = at IN
    << SubSeq(s, 1, k), SubSeq(s, k + 1, Len(s)) >>

\* from_request after the cookie lookup: the Authorization header values
from_headers(keys) ==
    IF Len(keys) # 1 \/ len(keys[1]) < 7 THEN Success(Auth_new)
    ELSE IF ~is_char_boundary(keys[1], 6) THEN Panic
    ELSE
    LET authtype == split_off(keys[1], 6)[1]
        auth_str == split_off(keys[1], 6)[2]
    IN
    IF authtype # BasicPrefix THEN Success(Auth_new)
    ELSE
    LET decoded == base64_decode(auth_str) IN
    IF decoded[1] = "Err" THEN Failure
    ELSE
    LET decoded_str == from_utf8(decoded[2]) IN
    IF decoded_str[1] = "Err" THEN Failure
    ELSE
    LET fields == split(decoded_str[2]) IN
    IF Len(fields) # 2 THEN Failure
    ELSE Success([Auth_new EXCEPT !.basic = Some(<< fields[1], fields[2] >>)])

\* a resolver that reads the Authorization header before the cookie
from_request_HeaderFirst(req) ==
    LET h == from_headers(req.keys) IN
    IF h.outcome # "Success" \/ h.auth.basic # None \/ req.cookie = None THEN h
    ELSE Success([Auth_new EXCEPT !.token = Some(req.cookie[1])])

\* a resolver that keeps reading the Authorization header after the cookie
from_request_BothSecrets(req) ==
    LET h == from_headers(req.keys) IN
    IF req.cookie = None \/ h.outcome # "Success" THEN h
    ELSE Success([h.auth EXCEPT !.token = Some(req.cookie[1])])

\* from_request: the session cookie first, then the Authorization header
from_request(req) ==
    IF req.cookie # None THEN
        Success([Auth_new EXCEPT !.token = Some(req.cookie[1])])
    ELSE from_headers(req.keys)

\* ------------------------------------------------------------------------
\* The identity store and the credential validator
\* ------------------------------------------------------------------------

\* crypt($2, password): the stored hash of a password
crypt(password) == << "crypt", password >>

\* SELECT id, access FROM users WHERE username = $1
\*   AND password = crypt($2, password)
QueryUsers(s, username, password) ==
    LET hit(u) == u.username = username /\ u.password = crypt(password)
        rows   == SelectSeq(s.users, hit)
    IN  [i \in 1..Len(rows) |-> << rows[i].id, rows[i].access >>]

\* the users joined to one users_tokens row
JoinUsers(s, t) ==
    LET hit(u) == u.id = t.uid
        rows   == SelectSeq(s.users, hit)
    IN  [i \in 1..Len(rows) |-> << t.uid, rows[i].access >>]

RECURSIVE JoinAll(_, _)
JoinAll(s, ts) ==
    IF ts = <<>> THEN <<>> ELSE JoinUsers(s, Head(ts)) \o JoinAll(s, Tail(ts))

\* a token query without the `now() < expiry` condition
QueryTokens_IgnoresExpiry(s, token) ==
    LET hit(t) == t.token = token
    IN  JoinAll(s, SelectSeq(s.tokens, hit))

\* SELECT users_tokens.uid, users.access FROM users_tokens, users
\*   WHERE token = $1 AND now() < expiry AND users_tokens.uid = users.id
\* (rows in table order; `expired` is the outcome of now() < expiry)
QueryTokens(s, token) ==
    LET hit(t) == t.token = token /\ ~t.expired
    IN  JoinAll(s, SelectSeq(s.tokens, hit))

\* what a call hands back: its return value, the credential after it and
\* the number of store queries it issued
Res(r, a, q) == [ret |-> r, auth |-> a, queried |-> q]

\* a Basic check that takes the first of several matching users
basic_mismatch_OnlyEmpty(res) == Len(res) = 0

\* `res.len() != 1`: the users query did not give exactly one row
basic_mismatch(res) == Len(res) # 1

\* `res.len() == 0`: the users_tokens query gave no row
token_mismatch(res) == Len(res) = 0

\* a validate that reports a failed query as a server error
store_error_ServerError == << "Err", 500, "Internal Server Error" >>

\* `Err(_) => Err(not_authed())`: the query itself failed
store_error == not_authed

\* a validate that clears the secret it could not confirm
validate_ClearsOnFailure(self, s, ok) ==
    IF self.basic # None THEN
        IF ok THEN
            LET res == QueryUsers(s, self.basic[1][1], self.basic[1][2]) IN
            IF basic_mismatch(res) THEN Res(not_authed, secure(self, None), 1)
            ELSE Res(<<"Ok", Some(res[1][1])>>, secure(self, Some(res[1])), 1)
        ELSE Res(store_error, secure(self, None), 1)
    ELSE IF self.token # None THEN
        IF ok THEN
            LET res == QueryTokens(s, self.token[1]) IN
            IF token_mismatch(res) THEN Res(not_authed, secure(self, None), 1)
            ELSE Res(<<"Ok", Some(res[1][1])>>, secure(self, Some(res[1])), 1)
        ELSE Res(store_error, secure(self, None), 1)
    ELSE Res(<<"Ok", None>>, self, 0)

\* Auth::validate; `ok` is whether conn.query succeeds
validate(self, s, ok) ==
    IF self.basic # None THEN
        IF ok THEN
            LET res == QueryUsers(s, self.basic[1][1], self.basic[1][2]) IN
            IF basic_mismatch(res) THEN Res(not_authed, self, 1)
            ELSE Res(<<"Ok", Some(res[1][1])>>, secure(self, Some(res[1])), 1)
        ELSE Res(store_error, self, 1)
    ELSE IF self.token # None THEN
        IF ok THEN
            LET res == QueryTokens(s, self.token[1]) IN
            IF token_mismatch(res) THEN Res(not_authed, self, 1)
            ELSE Res(<<"Ok", Some(res[1][1])>>, secure(self, Some(res[1])), 1)
        ELSE Res(store_error, self, 1)
    ELSE Res(<<"Ok", None>>, self, 0)

\* ------------------------------------------------------------------------
\* The permission gate
\* ------------------------------------------------------------------------

\* a gate that lets an operation without a policy through
required_none_Allows == OkTrue

\* the arm `None => Err(not_authed())`
required_none == not_authed

\* a gate that closes public operations
required_public_Denies == not_authed

\* the arm `"public" => Ok(true)`
required_public == OkTrue

\* an admin arm that forgets to compare the tier
required_admin_AnyTier(a) ==
    IF a.uid = None \/ a.access = None THEN not_authed ELSE OkTrue

\* the arm "admin"
required_admin(a) ==
    IF a.uid = None \/ a.access = None THEN not_authed
    ELSE IF a.access = Some("admin") THEN OkTrue
    ELSE not_authed

\* a "user" arm that wants the tier "user" itself
required_user_ExactTier(a) ==
    IF a.uid # None /\ a.access = Some("user") THEN OkTrue ELSE not_authed

\* the arm "user"
required_user(a) ==
    IF a.uid # None THEN OkTrue ELSE not_authed

\* a self arm that also wants a tier
required_self_NeedsTier(a) ==
    IF a.uid # None /\ a.access # None THEN OkTrue ELSE not_authed

\* the arm "self"
required_self(a) ==
    IF a.uid # None THEN OkTrue ELSE not_authed

\* a gate that lets a tier outside the vocabulary through
required_other_Allows == OkTrue

\* `_ => Err(not_authed())`: a tier that is none of the four known ones
required_other == not_authed

\* the match on `required`, run on the validated credential
Decide(required, a) ==
    IF required = None THEN required_none
    ELSE IF required[1] = "public" THEN required_public
    ELSE IF required[1] = "admin" THEN required_admin(a)
    ELSE IF required[1] = "user" THEN required_user(a)
    ELSE IF required[1] = "self" THEN required_self(a)
    ELSE required_other

\* a gate that looks at a missing tier before it validates the credential
auth_met_PolicyFirst(required, a, s, ok) ==
    IF required = None THEN Res(not_authed, a, 0)
    ELSE
    LET v == validate(a, s, ok) IN
    IF v.ret[1] = "Err" THEN v
    ELSE Res(Decide(required, v.auth), v.auth, v.queried)

\* auth_met: `auth.validate(conn)?` and then the match on `required`
auth_met(required, a, s, ok) ==
    LET v == validate(a, s, ok) IN
    IF v.ret[1] = "Err" THEN v
    ELSE Res(Decide(required, v.auth), v.auth, v.queried)

\* CustomAuth::is_admin
is_admin(self, a, s, ok) == auth_met(Some("admin"), a, s, ok)

\* CustomAuth::allows_server
allows_server(self, a, s, ok) == auth_met(self.server, a, s, ok)

\* accessors that fall back to the compiled-in default of an absent category
allows_DefaultsWhenAbsent(self, cat, op, a, s, ok) ==
    IF self[cat] = None THEN auth_met(CustomAuth_new[cat][1][op], a, s, ok)
    ELSE auth_met(self[cat][1][op], a, s, ok)

\* accessors that answer 403 for a category the document leaves out
allows_ForbiddenWhenAbsent(self, cat, op, a, s, ok) ==
    IF self[cat] = None THEN Res(<< "Err", 403, "Forbidden" >>, a, 0)
    ELSE auth_met(self[cat][1][op], a, s, ok)

\* accessors that take the default tier for an operation left unspecified
allows_DefaultsWhenUnspecified(self, cat, op, a, s, ok) ==
    IF self[cat] = None THEN Res(not_authed, a, 0)
    ELSE IF self[cat][1][op] = None THEN
        auth_met(CustomAuth_new[cat][1][op], a, s, ok)
    ELSE auth_met(self[cat][1][op], a, s, ok)

\* accessors that hand a missing category to the gate as a missing tier
allows_ValidatesWhenAbsent(self, cat, op, a, s, ok) ==
    IF self[cat] = None THEN auth_met(None, a, s, ok)
    ELSE auth_met(self[cat][1][op], a, s, ok)

\* CustomAuth::allows_<cat>_<op>, one body for every category and operation
allows(self, cat, op, a, s, ok) ==
    IF self[cat] = None THEN Res(not_authed, a, 0)
    ELSE auth_met(self[cat][1][op], a, s, ok)


\* ------------------------------------------------------------------------
\* Inputs: policy documents, stores and requests
\* ------------------------------------------------------------------------

\* the operations of each category
Ops ==
    [webhooks |-> {"list", "delete", "update"},
     meta     |-> {"get", "list", "set"},
     stats    |-> {"get", "bounds"},
     schema   |-> {"get"},
     auth     |-> {"get"},
     mvt      |-> {"get", "delete", "regen", "meta"},
     user     |-> {"info", "list", "create", "create_session"},
     feature  |-> {"force", "create", "get", "history"},
     style    |-> {"create", "patch", "set_public", "set_private",
                   "delete", "get", "list"},
     delta    |-> {"get", "list"},
     bounds   |-> {"list", "create", "delete", "get"},
     clone    |-> {"get", "query"},
     osm      |-> {"get", "create"}]

Categories == DOMAIN Ops

OpNames == UNION { Ops[c] : c \in Categories }

\* the pairs of a category and one of its operations
CatOps == { co \in Categories \X OpNames : co[2] \in Ops[co[1]] }

\* tier strings a document or a caller may give: the four the gate knows,
\* the "none" of the feature.force default and one unknown word
Tiers == {"public", "admin", "user", "self", "none", "bogus"}

Required == {None} \cup { Some(t) : t \in Tiers }

\* a document with one operation of a present category set to v
With(doc, cat, op, v) ==
    [doc EXCEPT ![cat] = Some([doc[cat][1] EXCEPT ![op] = v])]

\* a document with a category left out
Without(doc, cat) == [doc EXCEPT ![cat] = None]

\* the default document with feature.force inside its vocabulary
ValidDoc == With(CustomAuth_new, "feature", "force", Some("admin"))

\* documents for the validation: ValidDoc changed in one place
ConfigDocs ==
    {CustomAuth_new, ValidDoc}
    \cup { With(ValidDoc, co[1], co[2], v) : co \in CatOps, v \in Required }
    \cup { [ValidDoc EXCEPT !.server = v] : v \in Required }
    \cup { Without(ValidDoc, c) : c \in Categories }

\* documents with several invalid entries: ValidDoc with the word "bogus"
\* in two operations, or in the server tier and one operation
SeveralDocs ==
    ConfigDocs
    \cup { With(With(ValidDoc, a[1], a[2], Some("bogus")), b[1], b[2], Some("bogus")) :
             a \in CatOps, b \in CatOps }
    \cup { [With(ValidDoc, a[1], a[2], Some("bogus")) EXCEPT !.server = Some("bogus")] :
             a \in CatOps }

\* documents for the accessors: the default with one category left out or
\* one operation unspecified
PolicyDocs ==
    {CustomAuth_new, [CustomAuth_new EXCEPT !.server = None]}
    \cup { Without(CustomAuth_new, c) : c \in Categories }
    \cup { With(CustomAuth_new, co[1], co[2], None) : co \in CatOps }

\* user names and passwords as the bytes of "a", "b", "c", "d"
UserRow(id, name, password, access) ==
    [id |-> id, username |-> << name >>,
     password |-> crypt(<< password >>), access |-> access]

TokenRow(token, uid, expired) ==
    [token |-> token, uid |-> uid, expired |-> expired]

TokenTable ==
    << TokenRow("tokA", 1, FALSE), TokenRow("tokB", 2, FALSE),
       TokenRow("tokX", 1, TRUE) >>

\* user a/b with a given tier, user c/d of tier "user"
StoreWith(access) ==
    [users  |-> << UserRow(1, 97, 98, access),
                   UserRow(2, 99, 100, Some("user")) >>,
     tokens |-> TokenTable]

\* two rows for a/b, and token tokA held by both of them
StoreAmbiguous ==
    [users  |-> << UserRow(1, 97, 98, Some("admin")),
                   UserRow(2, 97, 98, Some("user")) >>,
     tokens |-> TokenTable \o << TokenRow("tokA", 2, FALSE) >>]

StoreEmpty == [users |-> <<>>, tokens |-> <<>>]

Stores ==
    { StoreWith(Some("admin")), StoreWith(Some("user")), StoreWith(None),
      StoreAmbiguous, StoreEmpty }

Cookies == {None, Some("tokA"), Some("tokB"), Some("tokX"), Some("tokZ")}

\* "Basic YTpi": a:b
HdrBasic == BasicPrefix \o << "Y", "T", "p", "i" >>
\* "Basic YTp4": a:x
HdrWrongPass == BasicPrefix \o << "Y", "T", "p", "4" >>
\* "Basic YQ==": a, one field
HdrOneField == BasicPrefix \o << "Y", "Q", "=", "=" >>
\* "Basic YTpiOmM=": a:b:c, three fields
HdrThreeFields == BasicPrefix \o << "Y", "T", "p", "i", "O", "m", "M", "=" >>
\* "Basic !!!!": not base64
HdrNotBase64 == BasicPrefix \o << "!", "!", "!", "!" >>
\* "Basic /w==": the byte 255, not UTF-8
HdrNotUtf8 == BasicPrefix \o << "/", "w", "=", "=" >>
\* "Basic ": the prefix and nothing after it
HdrPrefixOnly == BasicPrefix
\* "Bearer abc": another scheme
HdrBearer == << "B", "e", "a", "r", "e", "r", " ", "a", "b", "c" >>

\* "basic YTpi": the scheme in lower case
HdrLowerCase == << "b", "a", "s", "i", "c", " ", "Y", "T", "p", "i" >>

\* "abc": shorter than the prefix
HdrShort == << "a", "b", "c" >>

\* "Beare\u00e9r": eight bytes, byte 6 falls inside the two-byte character
HdrNonAscii == << "B", "e", "a", "r", "e", "U+00E9", "r" >>

Hdrs ==
    { HdrBasic, HdrWrongPass, HdrOneField, HdrThreeFields, HdrNotBase64,
      HdrNotUtf8, HdrPrefixOnly, HdrBearer, HdrLowerCase, HdrShort,
      HdrNonAscii }

\* header values that requests repeat
HdrsRepeated == { HdrBasic, HdrNotBase64 }

\* lists of Authorization values: none, one of Hdrs, or 2..MaxKeys repeated
KeyLists ==
    { <<>> } \cup { << h >> : h \in Hdrs }
    \cup UNION { [1..n -> HdrsRepeated] : n \in 2..MaxKeys }

Requests == [cookie : Cookies, keys : KeyLists]

\* requests for the accessors: anonymous, a token of user 1, an unknown token
PolicyRequests ==
    { [cookie |-> c, keys |-> <<>>] : c \in {None, Some("tokA"), Some("tokZ")} }

\* stores for the accessors: user 1 an admin, user 1 without a tier
PolicyStores ==
    { StoreWith(Some("admin")), StoreWith(None) }

\* ------------------------------------------------------------------------
\* State machine
\* ------------------------------------------------------------------------

NoCall == [op |-> "none"]

Call(op, arg, pre, r, conn) ==
    [op |-> op, arg |-> arg, pre |-> pre, queried |-> r.queried,
     conn |-> IF r.queried = 0 THEN "unused" ELSE IF conn THEN "Ok" ELSE "Err",
     ret |-> r.ret]

InitWith(docs, stores, requests) ==
    /\ custom \in docs
    /\ valid = None
    /\ store \in stores
    /\ request \in requests
    /\ outcome = "Pending"
    /\ auth = Auth_new
    /\ ret = None
    /\ last = NoCall
    /\ queries = 0

\* the answers conn.query may give a call: the connection is used only
\* when the credential holds a secret
Conn == IF auth.basic = None /\ auth.token = None THEN {TRUE} ELSE BOOLEAN

\* a call of the request's handler on its credential
Apply(op, arg, r, conn) ==
    /\ outcome = "Success"
    /\ queries + r.queried <= MaxQueries
    /\ auth' = r.auth
    /\ ret' = r.ret
    /\ last' = Call(op, arg, auth, r, conn)
    /\ queries' = queries + r.queried
    /\ UNCHANGED << custom, valid, store, request, outcome >>

\* the request guard builds the credential of the request
FromRequest ==
    /\ outcome = "Pending"
    /\ LET r == from_request(request) IN
       /\ outcome' = r.outcome
       /\ auth' = IF r.outcome = "Success" THEN r.auth ELSE auth
       /\ ret' = << r.outcome >>
       /\ last' = Call("from_request", None, auth, Res(<< r.outcome >>, auth, 0), TRUE)
    /\ UNCHANGED << custom, valid, store, request, queries >>

Validate ==
    \E conn \in Conn :
        Apply("validate", None, validate(auth, store, conn), conn)

AuthMet(required) ==
    \E conn \in Conn :
        Apply("auth_met", required, auth_met(required, auth, store, conn), conn)

IsAdmin ==
    \E conn \in Conn :
        Apply("is_admin", None, is_admin(custom, auth, store, conn), conn)

AllowsServer ==
    \E conn \in Conn :
        Apply("allows_server", None, allows_server(custom, auth, store, conn), conn)

Allows(cat, op) ==
    \E conn \in Conn :
        Apply("allows", << cat, op >>, allows(custom, cat, op, auth, store, conn), conn)

\* the loader validates the document
IsValid ==
    /\ valid = None
    /\ valid' = Some(CustomAuth_is_valid(custom))
    /\ UNCHANGED << custom, store, request, outcome, auth, ret, last, queries >>

\* one request: resolver, then validate and auth_met in any order
Init == InitWith({CustomAuth_new}, Stores, Requests)

Next ==
    \/ FromRequest
    \/ Validate
    \/ \E required \in Required : AuthMet(required)

Spec == Init /\ [][Next]_vars

\* one request on which only validate is called
NextValidate ==
    \/ FromRequest
    \/ Validate

SpecValidate == Init /\ [][NextValidate]_vars

\* one request under a policy document: resolver, then the accessors
InitPolicy == InitWith(PolicyDocs, PolicyStores, PolicyRequests)

NextPolicy ==
    \/ FromRequest
    \/ IsAdmin
    \/ AllowsServer
    \/ \E co \in CatOps : Allows(co[1], co[2])

SpecPolicy == InitPolicy /\ [][NextPolicy]_vars

\* the validation of a policy document
InitConfig == InitWith(ConfigDocs, {StoreEmpty}, {[cookie |-> None, keys |-> <<>>]})

NextConfig == IsValid

SpecConfig == InitConfig /\ [][NextConfig]_vars

\* the validation of a policy document with up to two invalid entries
InitSeveral == InitWith(SeveralDocs, {StoreEmpty}, {[cookie |-> None, keys |-> <<>>]})

SpecSeveral == InitSeveral /\ [][NextConfig]_vars

\* documents for the denials: the defaults, no server tier, a category left
\* out, an operation left out
DenialDocs ==
    { CustomAuth_new,
      [CustomAuth_new EXCEPT !.server = None],
      Without(CustomAuth_new, "feature"),
      With(CustomAuth_new, "feature", "get", None) }

\* requests for the denials: anonymous, each session token, a Basic pair
\* the store holds, a Basic pair with another password
DenialRequests ==
    { [cookie |-> c, keys |-> <<>>] : c \in Cookies }
    \cup { [cookie |-> None, keys |-> << h >>] : h \in { HdrBasic, HdrWrongPass } }

\* one request under a policy document: resolver, then every operation that
\* can deny
InitDenials == InitWith(DenialDocs, Stores, DenialRequests)

NextDenials ==
    \/ FromRequest
    \/ Validate
    \/ \E required \in Required : AuthMet(required)
    \/ IsAdmin
    \/ AllowsServer
    \/ \E co \in CatOps : Allows(co[1], co[2])

SpecDenials == InitDenials /\ [][NextDenials]_vars


\* ------------------------------------------------------------------------
\* Properties
\* ------------------------------------------------------------------------

NoSecret(a) == a.token = None /\ a.basic = None

\* whether the store holds what validate looks for: exactly one users row
\* for a Basic pair, an unexpired users_tokens row joined to a user for a
\* session token (the Basic pair is looked at first)
StoreAccepts(s, a) ==
    IF a.basic # None THEN
        Cardinality({ i \in 1..Len(s.users) :
                        /\ s.users[i].username = a.basic[1][1]
                        /\ s.users[i].password = crypt(a.basic[1][2]) }) = 1
    ELSE
        \E i \in 1..Len(s.tokens), j \in 1..Len(s.users) :
            /\ s.tokens[i].token = a.token[1]
            /\ ~s.tokens[i].expired
            /\ s.users[j].id = s.tokens[i].uid

\* the validation inside the last call went through: there was no secret to
\* check, or the store answered and holds the secret
ValidationPassed ==
    \/ NoSecret(last.pre)
    \/ last.conn = "Ok" /\ StoreAccepts(store, last.pre)

GateCalled(required) == last.op = "auth_met" /\ last.arg = required

\* C1 as stated: auth_met with required = Some("public") returns allow for
\* every credential state and every store state, a rejected or uncheckable
\* secret included.
C1_PublicAlwaysAllows ==
    GateCalled(Some("public")) => ret = OkTrue

\* C1 amended: auth_met with required = Some("public") allows exactly when
\* the validation of the credential does not fail (anonymous, already
\* resolved, or a secret the store accepts); with a secret the store rejects
\* or cannot check it returns the 401 denial of validate.
C1_PublicAllowsUnlessValidationFails ==
    GateCalled(Some("public")) =>
        /\ ret = OkTrue <=> ValidationPassed
        /\ ret # OkTrue => ret = not_authed

C1_Witness ==
    /\ GateCalled(Some("public"))
    /\ last.pre.token # None
    /\ last.conn = "Ok"
    /\ ret = OkTrue

\* C2: auth_met with required = None returns the 401 denial for every
\* credential and store state, a credential resolving to an admin included.
C2_NoPolicyDenies ==
    GateCalled(None) => ret = not_authed

C2_Witness ==
    /\ GateCalled(None)
    /\ auth.uid # None
    /\ auth.access = Some("admin")
    /\ ret = not_authed

\* C3: auth_met with required = Some("admin") allows if and only if, after
\* the validation, the identity is present and the tier equals "admin".
C3_AdminIffAdminTier ==
    GateCalled(Some("admin")) =>
        /\ ret = OkTrue <=> (auth.uid # None /\ auth.access = Some("admin"))
        /\ ret # OkTrue => ret = not_authed

C3_Witness ==
    /\ GateCalled(Some("admin"))
    /\ auth.uid # None
    /\ auth.access = Some("user")
    /\ ret = not_authed

\* C4: auth_met with required = Some("user") or Some("self") allows if and
\* only if, after the validation, the identity is present, whatever the
\* tier; the two tiers decide alike on every credential.
C4_UserSelfIffIdentity ==
    /\ (GateCalled(Some("user")) \/ GateCalled(Some("self"))) =>
          /\ ret = OkTrue <=> auth.uid # None
          /\ ret # OkTrue => ret = not_authed
    /\ \A conn \in BOOLEAN :
          auth_met(Some("user"), auth, store, conn)
              = auth_met(Some("self"), auth, store, conn)

C4_Witness ==
    /\ GateCalled(Some("self"))
    /\ auth.uid # None
    /\ auth.access = None
    /\ ret = OkTrue

AccessorCalledOnAbsent ==
    last.op = "allows" /\ custom[last.arg[1]] = None

SelfOps ==
    { << "user", "create_session" >>, << "user", "info" >>,
      << "style", "create" >>, << "style", "patch" >>,
      << "style", "set_public" >>, << "style", "set_private" >>,
      << "style", "delete" >> }

AuthOps ==
    { << "webhooks", "list" >>, << "webhooks", "delete" >>,
      << "webhooks", "update" >>, << "meta", "set" >>,
      << "feature", "create" >>, << "feature", "force" >>,
      << "osm", "create" >> }

Vocabulary(co) ==
    IF co \in SelfOps THEN {"self", "admin"}
    ELSE IF co \in AuthOps THEN {"user", "admin"}
    ELSE {"public", "admin", "user"}

\* the operation of a present category holds a string outside its vocabulary
OutOfVocabulary(doc, co) ==
    /\ doc[co[1]] # None
    /\ doc[co[1]][1][co[2]] # None
    /\ doc[co[1]][1][co[2]][1] \notin Vocabulary(co)

ScopeName(co) == co[1] \o "::" \o co[2]

\* C6: for every category and operation, a document whose tier string for
\* that operation lies outside the vocabulary of its classifier is rejected
\* by CustomAuth::is_valid with an error naming the category and operation
\* (each document checked holds at most one such string).
C6_OutOfVocabularyRejected ==
    valid # None =>
        /\ \A co \in CatOps :
              OutOfVocabulary(custom, co) =>
                  valid[1][1] = "Err" /\ valid[1][2] = ScopeName(co)
        /\ (custom.server # None /\ custom.server[1] \notin {"public", "admin", "user"})
              => valid[1][1] = "Err" /\ valid[1][2] = "server"

\* the record of the store that validate resolved the credential from
FromMatchedRecord(s, pre, a) ==
    IF pre.basic # None THEN
        \E i \in 1..Len(s.users) :
            /\ s.users[i].username = pre.basic[1][1]
            /\ s.users[i].password = crypt(pre.basic[1][2])
            /\ a.uid = Some(s.users[i].id)
            /\ a.access = s.users[i].access
    ELSE
        \E i \in 1..Len(s.tokens), j \in 1..Len(s.users) :
            /\ s.tokens[i].token = pre.token[1]
            /\ ~s.tokens[i].expired
            /\ s.users[j].id = s.tokens[i].uid
            /\ a.uid = Some(s.tokens[i].uid)
            /\ a.access = s.users[j].access

ValidateResolved ==
    last.op = "validate" /\ ~NoSecret(last.pre) /\ ret[1] = "Ok"

\* C7: when validate succeeds on a credential holding a Basic or a session
\* secret, identity and tier are those of a matching store record and both
\* secret fields are cleared; once a credential holds no secret, no later
\* operation gives it one.
C7_SecretsConsumed ==
    /\ [](ValidateResolved =>
            /\ NoSecret(auth)
            /\ ret = << "Ok", auth.uid >>
            /\ FromMatchedRecord(store, last.pre, auth))
    /\ [][(outcome = "Success" /\ NoSecret(auth)) => NoSecret(auth')]_vars

C7_Witness ==
    /\ ValidateResolved
    /\ last.pre.basic # None
    /\ auth.uid = Some(1)
    /\ NoSecret(auth)

\* C8: after a validate call that resolved identity u from a well-formed
\* Basic credential, a second validate call on the same credential returns
\* the cached identity u and issues no store query.
C8_SecondValidateReturnsCached ==
    (/\ last.op = "validate"
     /\ last.pre.uid # None
     /\ from_request(request).auth.basic # None)
        => ret = << "Ok", last.pre.uid >> /\ last.queried = 0

\* C9: for one credential, over any sequence of validate and auth_met calls,
\* at most one store query is issued, whatever the first query gave.
C9_AtMostOneQuery ==
    queries <= 1

\* C10: with a "session" cookie in the request, the resolver succeeds with a
\* credential whose token is the cookie value and whose other fields are
\* empty, for every list of Authorization values.
C10_CookieWins ==
    (last.op = "from_request" /\ request.cookie # None) =>
        /\ outcome = "Success"
        /\ auth = [uid |-> None, access |-> None,
                   token |-> request.cookie, basic |-> None]

C10_Witness ==
    /\ last.op = "from_request"
    /\ request.cookie = Some("tokA")
    /\ request.keys = << HdrNotBase64 >>
    /\ outcome = "Success"
    /\ auth.token = Some("tokA")

\* the resolver ran on a request without a session cookie
ResolvedHeaders == last.op = "from_request" /\ request.cookie = None

\* a header value starts with the six characters "Basic "
StartsWithBasic(h) == Len(h) >= 6 /\ SubSeq(h, 1, 6) = BasicPrefix

\* the request carries exactly one Authorization value and it starts with
\* "Basic "
BasicScoped == Len(request.keys) = 1 /\ StartsWithBasic(request.keys[1])

\* what follows the prefix in the one Authorization value
Remainder == SubSeq(request.keys[1], 7, Len(request.keys[1]))

\* a remainder that is not base64, or decodes to bytes that are not UTF-8,
\* or decodes to a text that ':' does not split into exactly two fields
Malformed(rem) ==
    LET decoded == base64_decode(rem) IN
    IF decoded[1] = "Err" THEN TRUE
    ELSE IF from_utf8(decoded[2])[1] = "Err" THEN TRUE
    ELSE Len(split(from_utf8(decoded[2])[2])) # 2

\* C11 as stated: with no session cookie and exactly one Authorization value
\* starting with "Basic ", the resolver fails the request for every
\* malformed remainder, the empty one included.
C11_MalformedBasicFails ==
    (ResolvedHeaders /\ BasicScoped /\ Malformed(Remainder)) =>
        outcome = "Failure"

\* C11 amended: with no session cookie and exactly one Authorization value
\* starting with "Basic ", the resolver fails the request for every
\* non-empty malformed remainder (not base64, not UTF-8, one field, three
\* fields) and never resolves it to a credential; for the empty remainder
\* it succeeds with the anonymous credential.
C11_NonEmptyMalformedBasicFails ==
    /\ (ResolvedHeaders /\ BasicScoped /\ Malformed(Remainder)) =>
          IF Remainder # <<>> THEN outcome = "Failure" /\ auth = Auth_new
          ELSE outcome = "Success" /\ auth = Auth_new
    /\ \A h \in { HdrOneField, HdrThreeFields, HdrNotBase64, HdrNotUtf8 } :
          (ResolvedHeaders /\ request.keys = << h >>) => outcome = "Failure"

C11_Witness ==
    /\ ResolvedHeaders
    /\ request.keys = << HdrNotUtf8 >>
    /\ Malformed(Remainder)
    /\ outcome = "Failure"

\* C12: with no session cookie, when the request has no Authorization
\* value, more than one, or exactly one that does not start with "Basic ",
\* the resolver succeeds with the anonymous credential (identity, tier,
\* token and basic all empty) and never fails the request.
C12_NoBasicIsAnonymous ==
    (ResolvedHeaders /\ ~BasicScoped) =>
        /\ outcome = "Success"
        /\ auth = [uid |-> None, access |-> None,
                   token |-> None, basic |-> None]

\* how many users rows carry the name and the hashed password of a Basic pair
MatchingUsers(s, pair) ==
    Cardinality({ i \in 1..Len(s.users) :
                    /\ s.users[i].username = pair[1]
                    /\ s.users[i].password = crypt(pair[2]) })

\* C13: validate on a credential holding a Basic secret, when the store
\* answers, returns the 401 denial and leaves the credential as it was
\* whenever zero or more than one users record matches the pair; it resolves
\* the credential only when exactly one record matches.
C13_BasicNeedsExactlyOne ==
    (last.op = "validate" /\ last.pre.basic # None) =>
        /\ last.conn = "Ok" /\ MatchingUsers(store, last.pre.basic[1]) # 1 =>
              /\ ret = << "Err", 401, "You must be logged in to access this resource" >>
              /\ auth = last.pre
        /\ last.conn = "Ok" /\ MatchingUsers(store, last.pre.basic[1]) = 1 =>
              /\ ret[1] = "Ok"
              /\ auth.uid # None
        /\ ret[1] = "Ok" => MatchingUsers(store, last.pre.basic[1]) = 1

C13_Witness ==
    /\ last.op = "validate"
    /\ last.pre.basic # None
    /\ last.conn = "Ok"
    /\ MatchingUsers(store, last.pre.basic[1]) = 2
    /\ ret = not_authed

\* C14: when the store query itself fails, for a Basic secret and for a
\* session token alike, validate returns the same 401 denial it returns for
\* a secret the store does not hold, leaves the credential as it was, and
\* has issued that one query only.
C14_StoreFailureDenies ==
    (last.op = "validate" /\ last.conn = "Err") =>
        /\ ret = << "Err", 401, "You must be logged in to access this resource" >>
        /\ ret = validate(last.pre, StoreEmpty, TRUE).ret
        /\ last.queried = 1
        /\ auth = last.pre

C14_Witness ==
    /\ last.op = "validate"
    /\ last.conn = "Err"
    /\ last.pre.token # None
    /\ StoreAccepts(store, last.pre)
    /\ ret = not_authed
    /\ last.queried = 1

\* the store holds users_tokens rows for the token and all are past expiry
OnlyExpired(s, token) ==
    /\ \E i \in 1..Len(s.tokens) : s.tokens[i].token = token
    /\ \A i \in 1..Len(s.tokens) :
          s.tokens[i].token = token => s.tokens[i].expired

\* the store without the users_tokens rows of the token
WithoutToken(s, token) ==
    LET other(t) == t.token # token
    IN  [s EXCEPT !.tokens = SelectSeq(s.tokens, other)]

\* C15: for every session token and every required tier, validate and
\* auth_met return the same result and leave the credential in the same
\* state when the token is in the store but expired as when the store has
\* no such token: the 401 denial, the credential as it was.
C15_ExpiredAsAbsent ==
    /\ (auth.token # None /\ OnlyExpired(store, auth.token[1])) =>
          \A conn \in BOOLEAN :
              /\ validate(auth, store, conn)
                     = validate(auth, WithoutToken(store, auth.token[1]), conn)
              /\ \A required \in Required :
                     auth_met(required, auth, store, conn)
                         = auth_met(required, auth,
                                    WithoutToken(store, auth.token[1]), conn)
    /\ (/\ last.op \in { "validate", "auth_met" }
        /\ last.pre.basic = None
        /\ last.pre.token # None
        /\ OnlyExpired(store, last.pre.token[1])) =>
          /\ ret = << "Err", 401, "You must be logged in to access this resource" >>
          /\ auth = last.pre

C15_Witness ==
    /\ GateCalled(Some("public"))
    /\ last.pre.token = Some("tokX")
    /\ OnlyExpired(store, "tokX")
    /\ last.conn = "Ok"
    /\ ret = not_authed
    /\ auth = last.pre

\* C16: every denial returned by validate, auth_met and the accessors is the
\* same error value (401, "You must be logged in to access this resource"),
\* whatever the cause: no credential, insufficient tier, missing policy,
\* expired or unknown token, zero or several matching users, store failure.
C16_OneDenialValue ==
    (/\ last.op \in { "validate", "auth_met", "is_admin", "allows_server", "allows" }
     /\ ret[1] = "Err") =>
        ret = << "Err", 401, "You must be logged in to access this resource" >>

C16_Witness ==
    /\ last.op = "allows"
    /\ custom[last.arg[1]] = None
    /\ auth.uid # None
    /\ ret[1] = "Err"

\* the last call was the accessor of an operation whose category is in the
\* document while the operation itself is unspecified
AccessorCalledOnUnspecified ==
    /\ last.op = "allows"
    /\ custom[last.arg[1]] # None
    /\ custom[last.arg[1]][1][last.arg[2]] = None

\* C17: when a category is present in the document and one of its
\* operations is unspecified, the accessor of that operation returns the
\* 401 denial for every credential, a resolved admin included, whatever the
\* default tier of the operation.
C17_UnspecifiedOperationDenies ==
    AccessorCalledOnUnspecified =>
        ret = << "Err", 401, "You must be logged in to access this resource" >>

C17_Witness ==
    /\ AccessorCalledOnUnspecified
    /\ CustomAuth_new[last.arg[1]][1][last.arg[2]] = Some("public")
    /\ last.pre.uid # None
    /\ last.pre.access = Some("admin")
    /\ ret = not_authed

\* what the gate decides from a cached identity and tier alone
CachedDecision(required, a) ==
    \/ required = Some("public")
    \/ required = Some("admin") /\ a.uid # None /\ a.access = Some("admin")
    \/ required \in { Some("user"), Some("self") } /\ a.uid # None

\* C18: over any sequence of auth_met calls with any tiers on one
\* credential, once a call has validated the credential (its identity is
\* set), every later auth_met call issues no store query, decides from the
\* cached identity and tier alone and leaves the credential as it was; the
\* identity and the tier never change once set.
C18_ResolvedCallsUseCache ==
    /\ []((last.op = "auth_met" /\ last.pre.uid # None) =>
            /\ last.queried = 0
            /\ last.conn = "unused"
            /\ auth = last.pre
            /\ ret = OkTrue <=> CachedDecision(last.arg, last.pre)
            /\ ret # OkTrue =>
                  ret = << "Err", 401, "You must be logged in to access this resource" >>)
    /\ [][auth.uid # None =>
            auth'.uid = auth.uid /\ auth'.access = auth.access]_vars

C18_Witness ==
    /\ GateCalled(Some("admin"))
    /\ request.cookie = Some("tokA")
    /\ last.pre.uid # None
    /\ last.pre.access = Some("user")
    /\ queries = 1
    /\ last.queried = 0
    /\ ret = not_authed

\* C19: auth_met validates the credential before it looks at the required
\* tier: called with required = None on a credential whose secret the store
\* accepts (the query itself not failing), it queries the store and returns
\* the 401 denial, and the credential is resolved all the same (identity and
\* tier of the matched record, both secrets cleared), so that no later
\* auth_met call on it issues a store query.
C19_ResolvesBeforePolicy ==
    (/\ GateCalled(None)
     /\ ~NoSecret(last.pre)
     /\ last.conn # "Err"
     /\ StoreAccepts(store, last.pre)) =>
        /\ ret = << "Err", 401, "You must be logged in to access this resource" >>
        /\ last.queried = 1
        /\ auth.uid # None
        /\ NoSecret(auth)
        /\ FromMatchedRecord(store, last.pre, auth)
        /\ \A required \in Required, conn \in BOOLEAN :
              auth_met(required, auth, store, conn).queried = 0

C19_Witness ==
    /\ GateCalled(None)
    /\ last.pre.basic # None
    /\ last.conn = "Ok"
    /\ StoreAccepts(store, last.pre)
    /\ ret = not_authed
    /\ auth.uid = Some(1)
    /\ auth.access = Some("admin")
    /\ NoSecret(auth)

\* C20: auth_met with a required tier that is a string other than "public",
\* "admin", "user" and "self" (such as "none") returns the 401 denial for
\* every credential, a resolved admin included.
C20_UnknownTierDenies ==
    (/\ last.op = "auth_met"
     /\ last.arg # None
     /\ last.arg[1] \notin { "public", "admin", "user", "self" }) =>
        ret = << "Err", 401, "You must be logged in to access this resource" >>

C20_Witness ==
    /\ GateCalled(Some("none"))
    /\ auth.uid # None
    /\ auth.access = Some("admin")
    /\ ret = not_authed

\* C21: in every state reached from the resolver by any sequence of
\* validate and auth_met calls, at most one of the two secret fields of the
\* credential (token, basic) is populated.
C21_AtMostOneSecret ==
    ~(auth.token # None /\ auth.basic # None)

C21_Witness ==
    /\ last.op \in { "validate", "auth_met" }
    /\ request.cookie = Some("tokZ")
    /\ request.keys = << HdrBasic >>
    /\ auth.token = Some("tokZ")
    /\ auth.basic = None
    /\ ret = not_authed

\* the order in which CustomAuth::is_valid and the is_valid of the
\* categories it visits run their checks, after the server tier
VisitOrder ==
    << << "meta", "get" >>, << "meta", "list" >>, << "meta", "set" >>,
       << "mvt", "get" >>, << "mvt", "regen" >>, << "mvt", "delete" >>,
       << "mvt", "meta" >>,
       << "schema", "get" >>,
       << "user", "create" >>, << "user", "list" >>,
       << "user", "create_session" >>, << "user", "info" >>,
       << "feature", "create" >>, << "feature", "force" >>,
       << "feature", "get" >>, << "feature", "history" >>,
       << "style", "create" >>, << "style", "patch" >>,
       << "style", "set_public" >>, << "style", "set_private" >>,
       << "style", "delete" >>, << "style", "get" >>, << "style", "list" >>,
       << "delta", "get" >>, << "delta", "list" >>,
       << "bounds", "list" >>, << "bounds", "create" >>,
       << "bounds", "delete" >>, << "bounds", "get" >>,
       << "clone", "get" >>, << "clone", "query" >>,
       << "osm", "get" >>, << "osm", "create" >> >>

\* the server tier of the document is outside the vocabulary of is_all
InvalidServer(doc) ==
    doc.server # None /\ doc.server[1] \notin { "public", "admin", "user" }

\* the positions of VisitOrder whose entry is invalid in the document
InvalidVisited(doc) ==
    { i \in 1..Len(VisitOrder) : OutOfVocabulary(doc, VisitOrder[i]) }

\* the name of the first invalid entry of the document in validation order
FirstInvalid(doc) ==
    IF InvalidServer(doc) THEN "server"
    ELSE LET i == CHOOSE i \in InvalidVisited(doc) :
                      \A j \in InvalidVisited(doc) : i <= j
         IN  ScopeName(VisitOrder[i])

\* C22: CustomAuth::is_valid returns an error for every document with at
\* least one invalid entry in a configured category, and for a document
\* with several invalid entries the error names the first of them in the
\* validation order.
C22_FirstInvalidEntryReported ==
    valid # None =>
        /\ (InvalidServer(custom) \/ \E co \in CatOps : OutOfVocabulary(custom, co))
              => valid[1][1] = "Err"
        /\ (InvalidServer(custom) \/ InvalidVisited(custom) # {})
              => valid[1][1] = "Err" /\ valid[1][2] = FirstInvalid(custom)

C24_DefaultDocumentValid ==
    (valid # None /\ custom = CustomAuth_new) => valid[1] = OkTrue

\* C25: an accessor whose category is absent from the document returns the
\* 401 denial without calling validate: it issues no store query and leaves
\* the credential as it was, a secret the store accepts staying unresolved,
\* whereas auth_met with required = None resolves that credential before it
\* denies.
C25_AbsentCategorySkipsValidate ==
    AccessorCalledOnAbsent =>
        /\ ret = << "Err", 401, "You must be logged in to access this resource" >>
        /\ last.queried = 0
        /\ last.conn = "unused"
        /\ auth = last.pre
        /\ (~NoSecret(auth) /\ StoreAccepts(store, auth)) =>
              /\ auth.uid = None
              /\ auth_met(None, auth, store, TRUE).ret = ret
              /\ auth_met(None, auth, store, TRUE).queried = 1
              /\ auth_met(None, auth, store, TRUE).auth.uid # None
              /\ NoSecret(auth_met(None, auth, store, TRUE).auth)

C25_Witness ==
    /\ AccessorCalledOnAbsent
    /\ auth.token = Some("tokA")
    /\ StoreAccepts(store, auth)
    /\ auth.uid = None
    /\ queries = 0
    /\ ret = not_authed

\* the gate allows the tier on the credential and the store of the state
Allowed(tier, conn) == auth_met(Some(tier), auth, store, conn).ret = OkTrue

\* C26: on one credential and one store (and one answer of the connection),
\* whenever auth_met allows "admin" it also allows "user", "self" and
\* "public", and whenever it allows "user" or "self" it also allows
\* "public"; after a call that allowed "admin", later calls allow the three
\* other tiers.
C26_TiersMonotone ==
    /\ \A conn \in BOOLEAN :
          /\ Allowed("admin", conn) =>
                Allowed("user", conn) /\ Allowed("self", conn) /\ Allowed("public", conn)
          /\ (Allowed("user", conn) \/ Allowed("self", conn)) =>
                Allowed("public", conn)
    /\ (GateCalled(Some("admin")) /\ ret = OkTrue) =>
          \A conn \in BOOLEAN, tier \in { "user", "self", "public" } :
              Allowed(tier, conn)

C26_Witness ==
    /\ GateCalled(Some("admin"))
    /\ last.pre.basic # None
    /\ ret = OkTrue
    /\ auth.access = Some("admin")
    /\ Allowed("user", TRUE)
    /\ Allowed("public", FALSE)

=============================================================================
